---------------------------- MODULE Spec2Model ----------------------------
(***************************************************************************)
(* A model of main.py: the POST /download endpoint of the YouTube          *)
(* downloader API.  A request is authenticated (get_api_key), validated    *)
(* (DownloadRequest), and handled by download_video: a job id is drawn,    *)
(* yt-dlp is run, the output file is checked, optionally uploaded to S3    *)
(* and presigned, and the output file is removed in the finally block.     *)
(*                                                                         *)
(* Strings are sequences: header values and API keys are sequences of      *)
(* one-character strings, file names and paths are sequences of tokens.    *)
(***************************************************************************)
EXTENDS Naturals, Sequences, FiniteSets, TLC

\* ---------------------------------------------------------------- bounds
\* Number of request slots handled concurrently under SpecConc.
NumReqs == 2
\* Longest text after the scheme prefix of an Authorization header (SpecAuth).
MaxTail == 3
\* Longest configured API key (SpecAuth).
MaxKeyLen == 3

\* ------------------------------------------------------ program constants
\* ExpiresIn=3600 of generate_presigned_url.
ExpiresIn == 3600

VARIABLES
    API_KEY,                \* os.getenv("API_KEY"), non-empty after startup
    S3_BUCKET,              \* os.getenv(...): [set, value]
    AWS_ACCESS_KEY_ID,
    AWS_SECRET_ACCESS_KEY,
    AWS_REGION,
    msg,                    \* r -> the inbound HTTP message of request r
    pc,                     \* r -> where request r is
    request,                \* r -> the validated DownloadRequest
    job,                    \* r -> unique_id, output_filename, output_path
    resp,                   \* r -> the HTTP response chosen for r
    calls,                  \* r -> the external calls made on behalf of r
    fs,                     \* the filesystem: path -> content
    s3                      \* the object store: <<bucket, key>> -> content

config == <<API_KEY, S3_BUCKET, AWS_ACCESS_KEY_ID, AWS_SECRET_ACCESS_KEY, AWS_REGION>>
vars == <<API_KEY, S3_BUCKET, AWS_ACCESS_KEY_ID, AWS_SECRET_ACCESS_KEY, AWS_REGION,
          msg, pc, request, job, resp, calls, fs, s3>>

Reqs == 1..NumReqs
\* The single slot used when one request is followed in isolation.
Solo == {1}

\* --------------------------------------------------------------- strings
StartsWith(s, p) == Len(s) >= Len(p) /\ SubSeq(s, 1, Len(p)) = p

\* Python's s.split(sep) for a one-character separator: every occurrence of
\* sep splits, consecutive separators yield empty strings.
RECURSIVE Split(_, _)
Split(s, sep) ==
    IF \A i \in 1..Len(s) : s[i] # sep
    THEN <<s>>
    ELSE LET i == CHOOSE k \in 1..Len(s) :
                      s[k] = sep /\ \A m \in 1..(k - 1) : s[m] # sep
         IN  <<SubSeq(s, 1, i - 1)>> \o Split(SubSeq(s, i + 1, Len(s)), sep)

Bearer_ == <<"B", "e", "a", "r", "e", "r", " ">>

\* ------------------------------------------------------ environment values
\* os.getenv: unset (None) or a string, possibly empty.
Unset == [set |-> FALSE, value |-> <<>>]
EnvVal(s) == [set |-> TRUE, value |-> s]
\* Python truthiness of an Optional[str].
Truthy(v) == v.set /\ v.value # <<>>

\* all([S3_BUCKET, AWS_ACCESS_KEY_ID, AWS_SECRET_ACCESS_KEY, AWS_REGION])
S3Configured ==
    /\ Truthy(S3_BUCKET)
    /\ Truthy(AWS_ACCESS_KEY_ID)
    /\ Truthy(AWS_SECRET_ACCESS_KEY)
    /\ Truthy(AWS_REGION)

\* ------------------------------------------------------------ HTTP values
HTTPException(status, detail) ==
    [type |-> "HTTPException", status |-> status, detail |-> detail]
\* An exception that is not an HTTPException.
Raised(type) == [type |-> type, status |-> 0, detail |-> <<type>>]

ErrorResponse(status, detail) == [status |-> status, body |-> [detail |-> detail]]

NoHeader == [present |-> FALSE, value |-> <<>>]
Hdr(s) == [present |-> TRUE, value |-> s]

\* --------------------------------------------------------- authentication
\* APIKeyHeader(name="Authorization", auto_error=True): a missing or empty
\* header is refused before get_api_key runs.  The installed FastAPI is not
\* pinned; releases answer 403 or 401 here.
APIKeyHeaderMissing(h) == ~h.present \/ h.value = <<>>
NotAuthenticatedStatuses == {401, 403}

\* get_api_key(key): the token it returns, or the HTTPException it raises.
get_api_key(key) ==
    IF ~StartsWith(key, Bearer_)
    THEN [ok |-> FALSE, token |-> <<>>,
          exc |-> HTTPException(401, <<"Formato de 'Authorization' header invalido">>)]
    ELSE LET token == Split(key, " ")[2]
         IN  IF token # API_KEY
             THEN [ok |-> FALSE, token |-> token,
                   exc |-> HTTPException(401, <<"API Key invalido o expirado">>)]
             ELSE [ok |-> TRUE, token |-> token,
                   exc |-> HTTPException(0, <<>>)]

\* ------------------------------------------------------- request bodies
\* A URL as pydantic parses it.
Url(scheme, host, path) == [scheme |-> scheme, host |-> host, path |-> path]
NoUrl == Url("", "", "")
ValidUrls == {Url("https", "youtu.be", "/abc123"), Url("http", "example.com", "/v")}
InvalidUrls == {Url("ftp", "example.com", "/v"), Url("", "", "/watch"),
                Url("https", "", "")}
Formats == {<<"mp4">>, <<"webm">>}

\* A JSON field: present with a value, or absent.
Absent(placeholder) == [p |-> FALSE, v |-> placeholder]
Present(v) == [p |-> TRUE, v |-> v]
Body(url, format, to_s3) == [url |-> url, format |-> format, to_s3 |-> to_s3]

Bodies ==
    { Body(u, f, t) :
        u \in {Absent(NoUrl)} \cup {Present(x) : x \in ValidUrls \cup InvalidUrls},
        f \in {Absent(<<>>)} \cup {Present(x) : x \in Formats},
        t \in {Absent(FALSE)} \cup {Present(x) : x \in BOOLEAN} }

\* Variant: any absolute URL is let through (AnyUrl in place of HttpUrl).
HttpUrlValidAnyScheme(u) == u.scheme # "" /\ u.host # ""

\* url: HttpUrl: an absolute http or https URL with a host.
HttpUrlValid(u) == u.scheme \in {"http", "https"} /\ u.host # ""

\* DownloadRequest(BaseModel): url is required; format and to_s3 default.
DownloadRequestValid(body) == body.url.p /\ HttpUrlValid(body.url.v)
DownloadRequest(body) ==
    [url    |-> body.url.v,
     format |-> IF body.format.p THEN body.format.v ELSE <<"mp4">>,
     to_s3  |-> IF body.to_s3.p THEN body.to_s3.v ELSE TRUE]

\* -------------------------------------------------------- files and paths
TEMP_DIR == <<"temp_downloads">>
\* The working directory of the process, for os.path.abspath.
Cwd == <<"/app">>
\* The values str(uuid.uuid4()) is drawn from.
UuidPool == <<"u1", "u2", "u3", "u4", "u5">>
UUIDs == {UuidPool[i] : i \in 1..NumReqs}
UsedIds == {job[r].unique_id : r \in {q \in Reqs : pc[q] \notin {"idle", "auth", "validate", "handler"}}}

\* Variant: the generator may hand out a value it has handed out before.
uuid4Repeat == UUIDs

\* uuid.uuid4(): a random 122-bit value; a repeat is taken never to happen.
uuid4 == UUIDs \ UsedIds

\* f"{unique_id}.{request.format}"
OutputFilename(unique_id, format) == <<unique_id, ".">> \o format
\* os.path.join(TEMP_DIR, output_filename)
OutputPath(filename) == TEMP_DIR \o <<"/">> \o filename
\* Variant: the path is reported as it is, relative to the working directory.
AbspathRelative(path) == path

\* os.path.abspath(output_path)
Abspath(path) == Cwd \o <<"/">> \o path
\* A file yt-dlp leaves beside the output while it works.
PartPath(path) == path \o <<".part">>

Put(f, k, v) == [x \in (DOMAIN f) \cup {k} |-> IF x = k THEN v ELSE f[x]]
Del(f, k) == [x \in (DOMAIN f) \ {k} |-> f[x]]
Exists(path) == path \in DOMAIN fs

\* What yt-dlp writes for a request: the video of the URL in the format.
Video(req) == [url |-> req.url, ext |-> req.format, complete |-> TRUE]
Partial(req) == [url |-> req.url, ext |-> req.format, complete |-> FALSE]

\* ------------------------------------------------------------ placeholders
NoMsg == [header |-> NoHeader, body |-> Body(Absent(NoUrl), Absent(<<>>), Absent(FALSE))]
NoRequest == [url |-> NoUrl, format |-> <<>>, to_s3 |-> FALSE]
NoJob == [unique_id |-> "", output_filename |-> <<>>, output_path |-> <<>>]
NoResp == [status |-> 0, body |-> [detail |-> <<>>]]

\* --------------------------------------------------------- exception flow
\* The except clauses of the inner try (lines 160-165): what leaves it.
InnerExcept(exc) ==
    IF exc.type \in {"NoCredentialsError", "PartialCredentialsError"}
    THEN HTTPException(500, <<"Error de configuracion de credenciales de AWS.">>)
    ELSE IF exc.type = "ClientError"
    THEN HTTPException(500, <<"Error al interactuar con S3: ">> \o exc.detail)
    ELSE exc

\* Variant: the catch-all clause comes first.
OuterExceptCatchAll(exc) ==
    ErrorResponse(500, <<"Error interno del servidor: ">> \o exc.detail)

\* The except clauses of the outer try (lines 175-180): the response an
\* exception raised inside the try ends as.  HTTPException is an Exception.
OuterExcept(exc) ==
    IF exc.type = "DownloadError"
    THEN ErrorResponse(400, <<"No se pudo descargar el video. Causa: ">> \o exc.detail)
    ELSE ErrorResponse(500, <<"Error interno del servidor: ">> \o exc.detail)

\* --------------------------------------------------------------- S3 calls
\* Variant: the object key is the job id without the extension.
UploadArgsById(j) ==
    [Filename |-> j.output_path, Bucket |-> S3_BUCKET.value, Key |-> <<j.unique_id>>]

\* s3_client.upload_file(output_path, S3_BUCKET, output_filename)
UploadArgs(j) ==
    [Filename |-> j.output_path, Bucket |-> S3_BUCKET.value, Key |-> j.output_filename]

\* Params={'Bucket': S3_BUCKET, 'Key': output_filename}, ExpiresIn=3600
PresignParams(j) ==
    [Bucket |-> S3_BUCKET.value, Key |-> j.output_filename, ExpiresIn |-> ExpiresIn]

\* The URL generate_presigned_url returns: it names what it was signed for.
PresignedUrl(params) == [signed_for |-> params]

\* ------------------------------------------------------------ environment
\* What the collaborators may do: how ydl.download ends, whether it leaves a
\* .part file, how upload_file and generate_presigned_url end.
Env ==
    [tool    |-> {"ok", "DownloadError", "Exception"},
     part    |-> BOOLEAN,
     upload  |-> {"ok", "NoCredentialsError", "ClientError", "Exception"},
     presign |-> {"ok", "NoCredentialsError", "ClientError"}]

\* ---------------------------------------------------------------- actions
\* A request arrives with a header drawn from H and a body drawn from B.
Receive(r, H, B) ==
    /\ pc[r] = "idle"
    /\ \E h \in H, b \in B : msg' = [msg EXCEPT ![r] = [header |-> h, body |-> b]]
    /\ pc' = [pc EXCEPT ![r] = "auth"]
    /\ UNCHANGED <<config, request, job, resp, calls, fs, s3>>

\* dependencies=[Security(get_api_key)]: runs before the body is validated.
Authenticate(r) ==
    /\ pc[r] = "auth"
    /\ LET h == msg[r].header
           res == get_api_key(h.value)
       IN  IF APIKeyHeaderMissing(h)
           THEN /\ \E st \in NotAuthenticatedStatuses :
                      resp' = [resp EXCEPT ![r] = ErrorResponse(st, <<"Not authenticated">>)]
                /\ pc' = [pc EXCEPT ![r] = "done"]
           ELSE IF ~res.ok
           THEN /\ resp' = [resp EXCEPT ![r] = ErrorResponse(res.exc.status, res.exc.detail)]
                /\ pc' = [pc EXCEPT ![r] = "done"]
           ELSE /\ resp' = resp
                /\ pc' = [pc EXCEPT ![r] = "validate"]
    /\ UNCHANGED <<config, msg, request, job, calls, fs, s3>>

\* request: DownloadRequest: FastAPI answers 422 when the body does not validate.
Validate(r) ==
    /\ pc[r] = "validate"
    /\ IF DownloadRequestValid(msg[r].body)
       THEN /\ request' = [request EXCEPT ![r] = DownloadRequest(msg[r].body)]
            /\ pc' = [pc EXCEPT ![r] = "handler"]
            /\ resp' = resp
       ELSE /\ resp' = [resp EXCEPT ![r] = ErrorResponse(422, <<"value is not a valid URL">>)]
            /\ pc' = [pc EXCEPT ![r] = "done"]
            /\ request' = request
    /\ UNCHANGED <<config, msg, job, calls, fs, s3>>

\* Lines 102-124: the job id, the file name and the path.
StartJob(r) ==
    /\ pc[r] = "handler"
    /\ \E unique_id \in uuid4 :
         LET output_filename == OutputFilename(unique_id, request[r].format)
         IN  job' = [job EXCEPT ![r] = [unique_id |-> unique_id,
                                        output_filename |-> output_filename,
                                        output_path |-> OutputPath(output_filename)]]
    /\ pc' = [pc EXCEPT ![r] = "download"]
    /\ UNCHANGED <<config, msg, request, resp, calls, fs, s3>>

\* Lines 128-129: ydl.download([str(request.url)]).  The tool returns or
\* raises, and either way may have written the output file and a .part file.
Download(r, E) ==
    /\ pc[r] = "download"
    /\ \E result \in E.tool, wrote \in BOOLEAN, part \in E.part :
         LET path == job[r].output_path
             fs1 == IF wrote THEN Put(fs, path, Video(request[r])) ELSE fs
             fs2 == IF part THEN Put(fs1, PartPath(path), Partial(request[r])) ELSE fs1
         IN  /\ fs' = fs2
             /\ calls' = [calls EXCEPT ![r] = Append(@,
                             [op |-> "ydl.download", url |-> request[r].url,
                              outtmpl |-> path, merge_output_format |-> request[r].format,
                              result |-> result])]
             /\ IF result = "ok"
                THEN /\ pc' = [pc EXCEPT ![r] = "check"]
                     /\ resp' = resp
                ELSE /\ pc' = [pc EXCEPT ![r] = "finally"]
                     /\ resp' = [resp EXCEPT ![r] = OuterExcept(Raised(result))]
    /\ UNCHANGED <<config, msg, request, job, s3>>

\* Lines 133-138 and 167-173: the output file must exist; then either the
\* upload is entered or the local answer is built.
CheckOutput(r) ==
    /\ pc[r] = "check"
    /\ LET j == job[r]
       IN  IF ~Exists(j.output_path)
           THEN /\ resp' = [resp EXCEPT ![r] = OuterExcept(HTTPException(500,
                                <<"El archivo no se genero despues de la descarga.">>))]
                /\ pc' = [pc EXCEPT ![r] = "finally"]
           ELSE IF request[r].to_s3
           THEN IF ~S3Configured
                THEN /\ resp' = [resp EXCEPT ![r] = OuterExcept(HTTPException(501,
                                     <<"El servidor no esta configurado para subir a S3.">>))]
                     /\ pc' = [pc EXCEPT ![r] = "finally"]
                ELSE /\ resp' = resp
                     /\ pc' = [pc EXCEPT ![r] = "upload"]
           ELSE /\ resp' = [resp EXCEPT ![r] =
                              [status |-> 200,
                               body |-> [message |-> "Archivo descargado localmente.",
                                         filename |-> j.output_filename,
                                         local_path |-> Abspath(j.output_path)]]]
                /\ pc' = [pc EXCEPT ![r] = "finally"]
    /\ UNCHANGED <<config, msg, request, job, calls, fs, s3>>

\* Lines 141-149: boto3.client(...) and upload_file.  A file that is gone
\* makes upload_file raise (FileNotFoundError).
Upload(r, E) ==
    /\ pc[r] = "upload"
    /\ LET j == job[r]
           args == UploadArgs(j)
           outcomes == IF Exists(args.Filename)
                       THEN E.upload
                       ELSE {"Exception"}
       IN  \E result \in outcomes :
             /\ calls' = [calls EXCEPT ![r] = Append(@,
                             [op |-> "upload_file", Filename |-> args.Filename,
                              Bucket |-> args.Bucket, Key |-> args.Key, result |-> result])]
             /\ IF result = "ok"
                THEN /\ s3' = Put(s3, <<args.Bucket, args.Key>>, fs[args.Filename])
                     /\ pc' = [pc EXCEPT ![r] = "presign"]
                     /\ resp' = resp
                ELSE /\ s3' = s3
                     /\ pc' = [pc EXCEPT ![r] = "finally"]
                     /\ resp' = [resp EXCEPT ![r] = OuterExcept(InnerExcept(Raised(result)))]
    /\ UNCHANGED <<config, msg, request, job, fs>>

\* Lines 151-158: generate_presigned_url and the answer {"file_url": ...}.
Presign(r, E) ==
    /\ pc[r] = "presign"
    /\ LET params == PresignParams(job[r])
       IN  \E result \in E.presign :
             /\ calls' = [calls EXCEPT ![r] = Append(@,
                             [op |-> "generate_presigned_url", Bucket |-> params.Bucket,
                              Key |-> params.Key, ExpiresIn |-> params.ExpiresIn,
                              result |-> result])]
             /\ IF result = "ok"
                THEN resp' = [resp EXCEPT ![r] =
                                [status |-> 200, body |-> [file_url |-> PresignedUrl(params)]]]
                ELSE resp' = [resp EXCEPT ![r] = OuterExcept(InnerExcept(Raised(result)))]
    /\ pc' = [pc EXCEPT ![r] = "finally"]
    /\ UNCHANGED <<config, msg, request, job, fs, s3>>

\* Variant: the cleanup runs only after a 200 answer.
FinallyOnSuccess(r) ==
    /\ pc[r] = "finally"
    /\ LET path == job[r].output_path
       IN  IF Exists(path) /\ resp[r].status = 200
           THEN \E removed \in BOOLEAN :
                  /\ fs' = IF removed THEN Del(fs, path) ELSE fs
                  /\ calls' = [calls EXCEPT ![r] = Append(@,
                                  [op |-> "os.remove", path |-> path, result |-> removed])]
           ELSE /\ fs' = fs
                /\ calls' = calls
    /\ pc' = [pc EXCEPT ![r] = "done"]
    /\ UNCHANGED <<config, msg, request, job, resp, s3>>

\* Lines 181-188: the finally block.  os.remove may fail (OSError), which is
\* logged; the response already chosen is what the handler ends with.
Finally(r) ==
    /\ pc[r] = "finally"
    /\ LET path == job[r].output_path
       IN  IF Exists(path)
           THEN \E removed \in BOOLEAN :
                  /\ fs' = IF removed THEN Del(fs, path) ELSE fs
                  /\ calls' = [calls EXCEPT ![r] = Append(@,
                                  [op |-> "os.remove", path |-> path, result |-> removed])]
           ELSE /\ fs' = fs
                /\ calls' = calls
    /\ pc' = [pc EXCEPT ![r] = "done"]
    /\ UNCHANGED <<config, msg, request, job, resp, s3>>

Handle(r, E) ==
    \/ Authenticate(r)
    \/ Validate(r)
    \/ StartJob(r)
    \/ Download(r, E)
    \/ CheckOutput(r)
    \/ Upload(r, E)
    \/ Presign(r, E)
    \/ Finally(r)

\* ---------------------------------------------------------- initial states
InitRequests ==
    /\ msg = [r \in Reqs |-> NoMsg]
    /\ pc = [r \in Reqs |-> "idle"]
    /\ request = [r \in Reqs |-> NoRequest]
    /\ job = [r \in Reqs |-> NoJob]
    /\ resp = [r \in Reqs |-> NoResp]
    /\ calls = [r \in Reqs |-> <<>>]
    /\ fs = <<>>
    /\ s3 = <<>>

\* Lines 40-50: API_KEY must be truthy; the S3 settings may be missing.
K == <<"k">>
EnvChoices(s) == {Unset, EnvVal(s)}
Init ==
    /\ API_KEY = K
    /\ S3_BUCKET \in {Unset, EnvVal(<<>>), EnvVal(<<"bucket">>)}
    /\ AWS_ACCESS_KEY_ID \in EnvChoices(<<"AKIA">>)
    /\ AWS_SECRET_ACCESS_KEY \in EnvChoices(<<"secret">>)
    /\ AWS_REGION \in EnvChoices(<<"us-east-1">>)
    /\ InitRequests

\* The headers a single request is followed with.
SomeHeaders ==
    {NoHeader, Hdr(Bearer_ \o K), Hdr(Bearer_ \o <<"K">>), Hdr(K)}

Next == \E r \in Solo : Receive(r, SomeHeaders, Bodies) \/ Handle(r, Env)

Spec == Init /\ [][Next]_vars

\* --------------------------------------------- authentication in detail
\* Header values and keys over a small alphabet: two letters that differ
\* only in case, and the space.
Alphabet == {"k", "K", " "}
Strs(n) == UNION {[1..m -> Alphabet] : m \in 0..n}
Prefixes == {<<>>, Bearer_, <<"B", "e", "a", "r", "e", "r">>,
             <<"b", "e", "a", "r", "e", "r", " ">>}
\* An HTTP server strips the whitespace around a header value.
Stripped(s) == s = <<>> \/ (s[1] # " " /\ s[Len(s)] # " ")
\* The header values that reach get_api_key: present, stripped and not empty.
Headers ==
    {Hdr(s) : s \in {x \in {p \o t : p \in Prefixes, t \in Strs(MaxTail)} :
                        Stripped(x) /\ x # <<>>}}
Keys == Strs(MaxKeyLen) \ {<<>>}

BodiesAuth ==
    {Body(Present(Url("https", "youtu.be", "/abc123")), Absent(<<>>), Present(t)) :
        t \in BOOLEAN}
    \cup {Body(Absent(NoUrl), Absent(<<>>), Absent(FALSE))}

S3Complete ==
    /\ S3_BUCKET = EnvVal(<<"bucket">>)
    /\ AWS_ACCESS_KEY_ID = EnvVal(<<"AKIA">>)
    /\ AWS_SECRET_ACCESS_KEY = EnvVal(<<"secret">>)
    /\ AWS_REGION = EnvVal(<<"us-east-1">>)

InitAuth ==
    /\ API_KEY \in Keys
    /\ S3Complete
    /\ InitRequests

NextAuth == \E r \in Solo : Receive(r, Headers, BodiesAuth) \/ Handle(r, Env)

SpecAuth == InitAuth /\ [][NextAuth]_vars

\* ------------------------------------------------- concurrent requests
\* Each concurrent request asks for a video of its own.
VideoPool == <<"/v1", "/v2", "/v3", "/v4", "/v5">>
BodiesConc(r) ==
    {Body(Present(Url("https", "youtu.be", VideoPool[r])), Present(<<"mp4">>), Present(t)) :
        t \in BOOLEAN}

InitConc ==
    /\ API_KEY = K
    /\ S3Complete
    /\ InitRequests

\* Concurrent requests are followed without .part files, which lie at paths
\* of their own, and without the credential errors, which end as the client
\* errors do.
EnvConc ==
    [Env EXCEPT !.part = {FALSE},
                !.upload = {"ok", "ClientError", "Exception"},
                !.presign = {"ok", "ClientError"}]

NextConc ==
    \E r \in Reqs : Receive(r, {Hdr(Bearer_ \o API_KEY)}, BodiesConc(r)) \/ Handle(r, EnvConc)

SpecConc == InitConc /\ [][NextConc]_vars

\*

\* ----------------------------------------------------------------- claims
Done(r) == pc[r] = "done"
HasCall(r, op) == \E i \in 1..Len(calls[r]) : calls[r][i].op = op
CallResult(r, op, res) ==
    \E i \in 1..Len(calls[r]) : calls[r][i].op = op /\ calls[r][i].result = res
ToolInvoked(r) == HasCall(r, "ydl.download")
UploadAttempted(r) == HasCall(r, "upload_file")
\* The request was let through by the Authorization check.
Authenticated(r) == pc[r] \notin {"idle", "auth"} /\ resp[r].status \notin {401, 403}
\* The request was let through by the check and by the body validation.
Validated(r) == request[r] # NoRequest
JobStarted(r) == job[r] # NoJob
\* The files in the filesystem that carry the job id of r.
JobFiles(r) == {p \in DOMAIN fs : StartsWith(p, TEMP_DIR \o <<"/", job[r].unique_id>>)}

\* C1 (as claimed, in the case where the download succeeded and the output
\* file was there, so that line 138 is reached): an authenticated, valid
\* request with to_s3=true, while a storage setting is unset or empty, is
\* answered 501.
C1_NotConfiguredIs501 ==
    \A r \in Reqs :
        (/\ Done(r) /\ Validated(r) /\ request[r].to_s3 /\ ~S3Configured
         /\ CallResult(r, "ydl.download", "ok")
         /\ HasCall(r, "os.remove"))
            => resp[r].status = 501

\* C2 (as claimed): a request whose Authorization header is absent, does not
\* start with "Bearer ", or carries after it anything other than API_KEY is
\* answered 401, and for it no job id is drawn, the download tool is not
\* invoked and no upload is attempted.
C2_BadHeaderIs401 ==
    \A r \in Reqs :
        (pc[r] # "idle" /\ msg[r].header # Hdr(Bearer_ \o API_KEY))
            => /\ ~JobStarted(r)
               /\ ~ToolInvoked(r)
               /\ ~UploadAttempted(r)
               /\ Done(r) => resp[r].status = 401

\* C3 (as claimed): get_api_key lets a header value through if and only if it
\* is exactly "Bearer " followed by API_KEY, for every API_KEY, and answers
\* 401 to every other value.
C3_AcceptsExactlyBearerKey ==
    \A r \in Reqs :
        (pc[r] \notin {"idle", "auth"} /\ ~APIKeyHeaderMissing(msg[r].header))
            => /\ Authenticated(r) <=> msg[r].header.value = Bearer_ \o API_KEY
               /\ ~Authenticated(r) => resp[r].status = 401

\* C4: when the download tool raises DownloadError for an authenticated, valid
\* request, the response is 400, not a 500-class status, and no upload is
\* attempted.
C4_DownloadErrorIs400 ==
    \A r \in Reqs :
        CallResult(r, "ydl.download", "DownloadError")
            => /\ resp[r].status = 400
               /\ ~UploadAttempted(r)
               /\ pc[r] \in {"finally", "done"}

C4_Witness ==
    \E r \in Reqs :
        /\ Done(r)
        /\ CallResult(r, "ydl.download", "DownloadError")
        /\ request[r].to_s3 /\ S3Configured
        /\ resp[r].status = 400

\* C5: with to_s3=true and all four storage settings present, when the
\* download, the upload and the signing succeed, the response is 200 with
\* {file_url: the presigned URL}; the object was uploaded to S3_BUCKET under
\* the key "<job id>.<format>", and the URL was signed for that bucket and
\* key with an expiry of 3600 seconds.
C5_UploadedUnderJobFilename ==
    \A r \in Reqs :
        (/\ Done(r) /\ Validated(r) /\ request[r].to_s3 /\ S3Configured
         /\ CallResult(r, "ydl.download", "ok")
         /\ CallResult(r, "upload_file", "ok")
         /\ CallResult(r, "generate_presigned_url", "ok"))
            => LET key == <<job[r].unique_id, ".">> \o request[r].format
                   bucket == S3_BUCKET.value
               IN  /\ resp[r] = [status |-> 200,
                                 body |-> [file_url |-> PresignedUrl(
                                     [Bucket |-> bucket, Key |-> key, ExpiresIn |-> 3600])]]
                   /\ \A i \in 1..Len(calls[r]) :
                        /\ calls[r][i].op = "upload_file"
                             => /\ calls[r][i].Bucket = bucket
                                /\ calls[r][i].Key = key
                                /\ calls[r][i].Filename = TEMP_DIR \o <<"/">> \o key
                        /\ calls[r][i].op = "generate_presigned_url"
                             => /\ calls[r][i].Bucket = bucket
                                /\ calls[r][i].Key = key
                                /\ calls[r][i].ExpiresIn = 3600
                   /\ <<bucket, key>> \in DOMAIN s3
                   /\ s3[<<bucket, key>>] = Video(request[r])

C5_Witness ==
    \E r \in Reqs :
        /\ Done(r) /\ request[r].to_s3 /\ S3Configured
        /\ CallResult(r, "generate_presigned_url", "ok")
        /\ resp[r].status = 200

\* The absolute path of the output file of r, written out.
LocalPath(r) ==
    <<"/app", "/", "temp_downloads", "/", job[r].unique_id, ".">> \o request[r].format
LocalAnswer(r) ==
    [status |-> 200,
     body |-> [message |-> "Archivo descargado localmente.",
               filename |-> <<job[r].unique_id, ".">> \o request[r].format,
               local_path |-> LocalPath(r)]]
\* r leaves the existence check with to_s3=false and the output file there.
AnswersLocally(r) ==
    /\ pc[r] = "check" /\ pc'[r] # "check"
    /\ ~request[r].to_s3
    /\ job[r].output_path \in DOMAIN fs
\* r returns from the handler.
Returns(r) == pc[r] # "done" /\ pc'[r] = "done" /\ JobStarted(r)

\* C6 (as claimed): with to_s3=false, a successful download and the output
\* file there, the response is 200 with message, filename and local_path, the
\* absolute path of the output file, built while the file exists; and when the
\* handler returns the file is gone.
C6_LocalFileAlwaysGone ==
    [][\A r \in Reqs :
         /\ AnswersLocally(r)
              => /\ resp'[r] = LocalAnswer(r)
                 /\ job[r].output_path \in DOMAIN fs'
         /\ (Returns(r) /\ ~request[r].to_s3 /\ resp[r].status = 200)
              => /\ resp'[r] = resp[r]
                 /\ job[r].output_path \notin DOMAIN fs'
      ]_vars

\* C6 (amended): as C6, except that the file is gone when the handler returns
\* unless os.remove failed, which the handler only logs: then the file stays.
C6_LocalFileGoneUnlessRemoveFails ==
    [][\A r \in Reqs :
         /\ AnswersLocally(r)
              => /\ resp'[r] = LocalAnswer(r)
                 /\ job[r].output_path \in DOMAIN fs'
         /\ (Returns(r) /\ ~request[r].to_s3 /\ resp[r].status = 200)
              => /\ resp'[r] = resp[r]
                 /\ job[r].output_path \in DOMAIN fs'
                      => CallResult(r, "os.remove", FALSE)'
      ]_vars

C6_Witness ==
    \E r \in Reqs :
        /\ Done(r) /\ Validated(r) /\ ~request[r].to_s3
        /\ resp[r] = LocalAnswer(r)
        /\ CallResult(r, "os.remove", TRUE)
        /\ ~Exists(job[r].output_path)

\* The url field is missing or is not an absolute URL.
NotAbsoluteUrl(body) == ~body.url.p \/ body.url.v.scheme = "" \/ body.url.v.host = ""
\* The url field is missing or is not an absolute http or https URL.
NotHttpUrl(body) == NotAbsoluteUrl(body) \/ body.url.v.scheme \notin {"http", "https"}

C8_CleanupOnEveryExit ==
    [][\A r \in Reqs :
         Returns(r)
            => /\ pc[r] = "finally"
               /\ resp[r].status # 0
               /\ resp'[r] = resp[r]
               /\ job[r].output_path \in DOMAIN fs'
                    => CallResult(r, "os.remove", FALSE)'
      ]_vars

C8_Witness ==
    \E r \in Reqs :
        /\ Done(r) /\ JobStarted(r)
        /\ resp[r].status = 400
        /\ CallResult(r, "os.remove", TRUE)
        /\ ~Exists(job[r].output_path)

\* C9 (as claimed): when the download tool returns normally and no file is at
\* the job's output path, the response is 500, no upload is attempted, and
\* when the handler has returned no partial file of the job is left in the
\* scratch directory.
C9_MissingOutputCleansPartial ==
    \A r \in Reqs :
        (Done(r) /\ CallResult(r, "ydl.download", "ok") /\ ~HasCall(r, "os.remove"))
            => /\ resp[r].status = 500
               /\ ~UploadAttempted(r)
               /\ JobFiles(r) = {}

\* The requests whose handler is running.
InFlight == {r \in Reqs : pc[r] \in {"download", "check", "upload", "presign", "finally"}}

\* C10: under every interleaving, no two requests have the same job id or the
\* same output path, and a step of one request leaves the output file of
\* every other in-flight request as it was; what a request uploads is the
\* video of its own URL.
C10_JobsDoNotCollide ==
    [][\A r \in Reqs :
         /\ \A q \in Reqs \ {r} :
              (JobStarted(r)' /\ JobStarted(q)')
                 => /\ job'[r].unique_id # job'[q].unique_id
                    /\ job'[r].output_path # job'[q].output_path
         /\ \A q \in InFlight \ {r} :
              pc'[r] # pc[r]
                 => /\ job[q].output_path \in DOMAIN fs <=> job[q].output_path \in DOMAIN fs'
                    /\ job[q].output_path \in DOMAIN fs
                         => fs'[job[q].output_path] = fs[job[q].output_path]
         /\ (pc[r] = "upload" /\ pc'[r] = "presign")
              => s3'[<<S3_BUCKET.value, job[r].output_filename>>] = Video(request[r])
      ]_vars

C10_Witness ==
    \E r \in Reqs : \E q \in Reqs \ {r} :
        /\ pc[r] = "finally" /\ pc[q] = "upload"
        /\ Exists(job[r].output_path) /\ Exists(job[q].output_path)
        /\ request[r].url # request[q].url
        /\ request[r].format = request[q].format

=============================================================================
